---- MODULE Spec2Model ----
(***************************************************************************)
(* Conway's Game of Life on an N x N torus: GameOfLife_sequential.c.       *)
(*                                                                         *)
(* Two specifications over the same variables:                             *)
(*   Spec      a whole run of main(): load, print, t generations, print,   *)
(*             write.  play() is one action here.                          *)
(*   SpecPlay  one call of play() from an arbitrary grid, one action per   *)
(*             loop iteration, so the states inside a generation are       *)
(*             visible.                                                    *)
(* Both use the same operators for the neighbour sum and the rules.        *)
(***************************************************************************)
EXTENDS Integers, FiniteSets, Sequences, TLC

\* ---------------------------------------------------------------- bounds
MaxN == 3          \* grid side N ranges over 1..MaxN
MaxT == 2          \* generation count t ranges over 0..MaxT
MaxSpan == 9       \* the 1s of a source file lie among its first MaxSpan elements

\* ------------------------------------------------------- program constants
PrintSide == 4     \* printCells prints a PrintSide x PrintSide corner

\* values an uninitialised int of the malloc'ed table may turn out to hold
Garbage == {0, 1, 2}

VARIABLES
    pc,        \* position: in main, in play, or a final outcome
    filename,  \* argv[1]
    N,         \* atoi(argv[2])
    t,         \* atoi(argv[3])
    gen,       \* main's loop counter
    table,     \* main's grid (X inside play); <<>> while its contents are indeterminate
    new,       \* play's buffer; <<>> when not allocated
    i, j,      \* play's loop counters
    births, deaths, ok,   \* play's counters
    size,      \* read_from_file's size (elements read)
    data,      \* the elements fread delivered
    warnings,  \* messages passed to warn
    msg,       \* message passed to die, "" if none
    acc,       \* indices of the grid buffer touched by the last step
    fp,        \* read_from_file's fp: "none" before fopen, then "null", "open" or "closed"
    io,        \* stdio calls made so far on the source and the destination
    outfile,   \* path opened by write_to_file, <<>> if none
    wsize,     \* write_to_file's size (elements written)
    plays,     \* number of completed play calls
    loaded,    \* the grid as read_from_file left it
    Xold       \* the grid at the start of the current/last play call

vars == <<pc, filename, N, t, gen, table, new, i, j, births, deaths, ok, size,
          data, warnings, msg, acc, fp, io, outfile, wsize, plays, loaded, Xold>>

\* ------------------------------------------------------------- pure parts
Cells(n) == 0 .. (n * n - 1)

\* lines 104-107
up(r, n) == ((r - 1) + n) % n
down(r, n) == (r + 1) % n
left(c, n) == ((c - 1) + n) % n
right(c, n) == (c + 1) % n

\* the eight indices read at lines 109-118, in source order
neighbours(n, r, c) ==
    << n * up(r, n) + left(c, n),
       n * up(r, n) + c,
       n * up(r, n) + right(c, n),
       n * r + left(c, n),
       n * r + right(c, n),
       n * down(r, n) + left(c, n),
       n * down(r, n) + c,
       n * down(r, n) + right(c, n) >>

\* lines 108-118
sum(X, n, r, c) ==
    LET nb == neighbours(n, r, c)
    IN  X[nb[1]] + X[nb[2]] + X[nb[3]] + X[nb[4]] + X[nb[5]] + X[nb[6]] + X[nb[7]] + X[nb[8]]

\* variant of rule: a live cell with three live neighbours dies too
rule_surv3(x, s) ==
    IF x = 0 /\ s = 3 THEN [new |-> 1, births |-> 1, deaths |-> 0, ok |-> 0]
    ELSE IF x = 1 /\ (s < 2 \/ s >= 3) THEN [new |-> 0, births |-> 0, deaths |-> 1, ok |-> 0]
    ELSE [new |-> x, births |-> 0, deaths |-> 0, ok |-> 1]

\* variant of rule: a death is not counted
rule_nocount(x, s) ==
    IF x = 0 /\ s = 3 THEN [new |-> 1, births |-> 1, deaths |-> 0, ok |-> 0]
    ELSE IF x = 1 /\ (s < 2 \/ s > 3) THEN [new |-> 0, births |-> 0, deaths |-> 0, ok |-> 0]
    ELSE [new |-> x, births |-> 0, deaths |-> 0, ok |-> 1]

\* lines 121-130: the value stored in new[] and the counter that is incremented
rule(x, s) ==
    IF x = 0 /\ s = 3 THEN [new |-> 1, births |-> 1, deaths |-> 0, ok |-> 0]
    ELSE IF x = 1 /\ (s < 2 \/ s > 3) THEN [new |-> 0, births |-> 0, deaths |-> 1, ok |-> 0]
    ELSE [new |-> x, births |-> 0, deaths |-> 0, ok |-> 1]

\* body of the loop at lines 98-132 for cell (r, c)
cell(X, n, r, c) == rule(X[r * n + c], sum(X, n, r, c))

\* buf with buf[k] = v; buf holds only the cells written since malloc
assign(buf, k, v) == [m \in DOMAIN buf \cup {k} |-> IF m = k THEN v ELSE buf[m]]

\* variant of store: the next state is written into X as well
store_inplace(X, nw, k, v) == [X |-> [X EXCEPT ![k] = v], new |-> assign(nw, k, v)]

\* lines 122, 125, 128: the next state goes to new[], X is left alone
store(X, nw, k, v) == [X |-> X, new |-> assign(nw, k, v)]

\* lines 123, 126, 129: the counter of the cell's case goes up by one
counted(st, bufs, res) ==
    [X |-> bufs.X, new |-> bufs.new,
     births |-> st.births + res.births,
     deaths |-> st.deaths + res.deaths,
     ok |-> st.ok + res.ok]

\* lines 121-130 for cell k, given the result res of its rule
iteration(st, k, res) == counted(st, store(st.X, st.new, k, res.new), res)

RECURSIVE cell_loop(_, _, _)
\* lines 98-132 run from cell k on: the buffers and counters after the loop
cell_loop(st, n, k) ==
    IF k >= n * n THEN st
    ELSE cell_loop(iteration(st, k, cell(st.X, n, k \div n, k % n)), n, k + 1)

\* lines 95-140: one whole generation once new[] is allocated; the copy loop
\* of lines 136-140 makes X equal to new
generation(X, n) ==
    LET st == cell_loop([X |-> X, new |-> <<>>,
                         births |-> 0, deaths |-> 0, ok |-> 0], n, 0)
    IN  [X |-> st.new, births |-> st.births, deaths |-> st.deaths, ok |-> st.ok]

\* line 143
miscounted(b, d, o, n) == d + b + o # n * n

\* variant of for_cond: gen<=t
for_cond_le(g, tt) == g <= tt

\* line 194: gen<t
for_cond(g, tt) == g < tt

\* variant of for_incr: gen+=2
for_incr_two(g) == g + 2

\* line 194: gen++
for_incr(g) == g + 1

\* variant of short_read: N*N < size
short_read_never(n, sz) == n * n < sz

\* line 50
short_read(n, sz) == n * n # sz

\* line 68: sprintf(newfilename, "table%dx%d_new.bin", N, N)
newfilename(n) == <<"table", n, "x", n, "_new.bin">>

\* lines 154-156: the indices printCells reads
printed(n) == {n * r + c : r \in 0 .. (PrintSide - 1), c \in 0 .. (PrintSide - 1)}

MsgOpenRead == "Couldn't open file to read"
MsgRead == "Couldn't read from file"
MsgShortRead == "Expected to read different number of elements"
MsgOpenWrite == "Couldn't open file to write"
MsgWrite == "Couldn't write to file"
MsgShortWrite == "Expected to write different number of elements"
MsgAlloc == "Memory allocation failed"
MsgTesting == "Testing issue - not all cells were taken into account"

\* lines 15-22: exit(1) with the message shown
die(message) == pc' = "dead" /\ msg' = message

\* lines 28-35: the message is shown and the caller goes on
warn(cond, message) == warnings' = IF cond THEN warnings \cup {message} ELSE warnings

\* ------------------------------------------------------------ the inputs
\* the conventional name of a source of side n, and the name the program
\* itself gives its output
Paths(n) == {<<"table", n, "x", n, ".bin">>, newfilename(n)}

\* numbers of elements a read that gets something delivers: all, or one short
ShortCounts(n) == {c \in {n * n - 1, n * n} : c > 0}

\* numbers of elements fread may deliver
ReadCounts(n) == {0} \cup ShortCounts(n)

\* contents of the first c ints of a source file
FileData(c) ==
    {[k \in 0 .. (c - 1) |-> IF k \in s THEN 1 ELSE 0] :
       s \in SUBSET {k \in 0 .. (c - 1) : k < MaxSpan}}

\* what the ints of the table that fread did not fill may hold
Uninit(c, n) == [c .. (n * n - 1) -> Garbage]

\* lines 45 and 185: the table after fread delivered d into malloc'ed memory
filled(n, d, g) == [k \in Cells(n) |-> IF k \in DOMAIN d THEN d[k] ELSE g[k]]

\* start grids of SpecPlay: the tables a read can leave
Grids(n) ==
    UNION {UNION {{filled(n, d, g) : g \in Uninit(c, n)} : d \in FileData(c)} :
             c \in ShortCounts(n)}

\* ------------------------------------------------------------ whole run
\* lines 181-185: main's declarations; the contents of table are indeterminate
\* (the malloc of line 185 is taken to succeed)
Init ==
    /\ pc = "read"
    /\ N \in 1 .. MaxN
    /\ t \in 0 .. MaxT
    /\ filename \in Paths(N)
    /\ gen = 0
    /\ table = <<>>
    /\ new = <<>>
    /\ i = 0 /\ j = 0
    /\ births = 0 /\ deaths = 0 /\ ok = 0
    /\ size = 0
    /\ data = <<>>
    /\ warnings = {}
    /\ msg = ""
    /\ acc = {}
    /\ fp = "none"
    /\ io = <<>>
    /\ outfile = <<>>
    /\ wsize = 0
    /\ plays = 0
    /\ loaded = <<>>
    /\ Xold = <<>>

\* lines 42-57.  fread is called at line 45 before fp is tested at line 46:
\* with fp = NULL the call is undefined, and the build either faults inside
\* fread or comes back and reaches die at line 47.
read_from_file ==
    /\ pc = "read"
    /\ \E opens \in BOOLEAN :
         IF ~opens
         THEN /\ fp' = "null"
              /\ io' = io \o <<"fopen source", "fread source">>
              /\ \/ pc' = "crashed" /\ msg' = msg
                 \/ die(MsgOpenRead)
              /\ UNCHANGED <<table, size, data, warnings, acc, loaded>>
         ELSE \E c \in ReadCounts(N) : \E d \in FileData(c) :
                /\ size' = c
                /\ data' = d
                /\ acc' = 0 .. (c - 1)
                /\ IF c = 0
                   THEN /\ die(MsgRead)
                        /\ fp' = "open"
                        /\ io' = io \o <<"fopen source", "fread source">>
                        /\ UNCHANGED <<table, warnings, loaded>>
                   ELSE /\ \E g \in Uninit(c, N) : table' = filled(N, d, g)
                        /\ loaded' = table'
                        /\ warn(short_read(N, c), MsgShortRead)
                        /\ fp' = "closed"
                        /\ io' = io \o <<"fopen source", "fread source", "fclose source">>
                        /\ pc' = "print1"
                        /\ msg' = msg
    /\ UNCHANGED <<filename, N, t, gen, new, i, j, births, deaths, ok, outfile,
                   wsize, plays, Xold>>

\* lines 152-160, called at lines 190 and 205.  A read past the end of the
\* N*N ints is undefined: it yields some value to print, or faults.
printCells ==
    /\ pc \in {"print1", "print2"}
    /\ acc' = printed(N)
    /\ LET next == IF pc = "print1" THEN "for" ELSE "write"
       IN  IF printed(N) \subseteq Cells(N)
           THEN pc' = next
           ELSE pc' \in {next, "crashed"}
    /\ UNCHANGED <<fp, filename, N, t, gen, table, new, i, j, births, deaths, ok, size,
                   data, warnings, msg, io, outfile, wsize, plays, loaded, Xold>>

\* line 194: the test of the for loop
main_for_test ==
    /\ pc = "for"
    /\ pc' = IF for_cond(gen, t) THEN "play" ELSE "print2"
    /\ acc' = {}
    /\ UNCHANGED <<fp, filename, N, t, gen, table, new, i, j, births, deaths, ok, size,
                   data, warnings, msg, io, outfile, wsize, plays, loaded, Xold>>

\* lines 90-149 as one step of main (line 197)
play ==
    /\ pc = "play"
    /\ Xold' = table
    /\ \E alloc \in BOOLEAN :
         IF ~alloc
         THEN /\ die(MsgAlloc)
              /\ acc' = {}
              /\ UNCHANGED <<table, i, j, births, deaths, ok, warnings, plays>>
         ELSE \E g \in {generation(table, N)} :
                  /\ table' = g.X
                  /\ births' = g.births /\ deaths' = g.deaths /\ ok' = g.ok
                  /\ i' = N /\ j' = N
                  /\ warn(miscounted(g.births, g.deaths, g.ok, N), MsgTesting)
                  /\ acc' = Cells(N)
                  /\ plays' = plays + 1
                  /\ pc' = "incr"
                  /\ msg' = msg
    /\ UNCHANGED <<fp, filename, N, t, gen, new, size, data, io, outfile, wsize, loaded>>

\* line 194: the increment of the for loop (after lines 198-201)
main_for_incr ==
    /\ pc = "incr"
    /\ gen' = for_incr(gen)
    /\ pc' = "for"
    /\ acc' = {}
    /\ UNCHANGED <<fp, filename, N, t, table, new, i, j, births, deaths, ok, size,
                   data, warnings, msg, io, outfile, wsize, plays, loaded, Xold>>

\* lines 64-82, called at line 206; then lines 208-209
write_to_file ==
    /\ pc = "write"
    /\ \E wopens \in BOOLEAN :
         IF ~wopens
         THEN /\ die(MsgOpenWrite)
              /\ io' = Append(io, "fopen destination")
              /\ acc' = {}
              /\ UNCHANGED <<outfile, wsize, warnings>>
         ELSE /\ outfile' = newfilename(N)
              /\ \E ws \in {0, N * N - 1, N * N} :
                   /\ wsize' = ws
                   /\ acc' = 0 .. (ws - 1)
                   /\ IF ws = 0
                      THEN /\ die(MsgWrite)
                           /\ io' = io \o <<"fopen destination", "fwrite destination">>
                           /\ UNCHANGED warnings
                      ELSE /\ warn(ws # N * N, MsgShortWrite)
                           /\ io' = io \o <<"fopen destination", "fwrite destination",
                                            "fclose destination">>
                           /\ pc' = "done"
                           /\ msg' = msg
    /\ UNCHANGED <<fp, filename, N, t, gen, table, new, i, j, births, deaths, ok, size,
                   data, plays, loaded, Xold>>

Next ==
    \/ read_from_file
    \/ printCells
    \/ main_for_test
    \/ play
    \/ main_for_incr
    \/ write_to_file

Spec == Init /\ [][Next]_vars

\* ------------------------------------------------- one call of play, by cell
\* play is entered (line 90) with some N x N grid
InitPlay ==
    /\ pc = "play"
    /\ N \in 1 .. MaxN
    /\ t = 1
    /\ filename = <<"table", N, "x", N, ".bin">>
    /\ gen = 0
    /\ table \in Grids(N)
    /\ new = <<>>
    /\ i = 0 /\ j = 0
    /\ births = 0 /\ deaths = 0 /\ ok = 0
    /\ size = N * N
    /\ data = table
    /\ warnings = {}
    /\ msg = ""
    /\ acc = {}
    /\ fp = "closed"
    /\ io = <<"fopen source", "fread source", "fclose source">>
    /\ outfile = <<>>
    /\ wsize = 0
    /\ plays = 0
    /\ loaded = table
    /\ Xold = <<>>

\* lines 91-96
play_alloc ==
    /\ pc = "play"
    /\ Xold' = table
    /\ acc' = {}
    /\ \E alloc \in BOOLEAN :
         IF ~alloc
         THEN /\ die(MsgAlloc)
              /\ UNCHANGED <<new, i, j, births, deaths, ok>>
         ELSE /\ new' = <<>>
              /\ i' = 0 /\ j' = 0
              /\ births' = 0 /\ deaths' = 0 /\ ok' = 0
              /\ pc' = "cell"
              /\ msg' = msg
    /\ UNCHANGED <<fp, filename, N, t, gen, table, size, data, warnings, io, outfile,
                   wsize, plays, loaded>>

\* lines 98-132: one iteration of the inner loop
play_cell ==
    /\ pc = "cell"
    /\ \E st \in {iteration([X |-> table, new |-> new, births |-> births,
                             deaths |-> deaths, ok |-> ok],
                            i * N + j, cell(table, N, i, j))} :
           /\ table' = st.X
           /\ new' = st.new
           /\ births' = st.births
           /\ deaths' = st.deaths
           /\ ok' = st.ok
    /\ acc' = {neighbours(N, i, j)[m] : m \in 1 .. 8} \cup {i * N + j}
    /\ IF j + 1 < N
       THEN i' = i /\ j' = j + 1 /\ pc' = "cell"
       ELSE IF i + 1 < N
            THEN i' = i + 1 /\ j' = 0 /\ pc' = "cell"
            ELSE i' = 0 /\ j' = 0 /\ pc' = "copy"
    /\ UNCHANGED <<fp, filename, N, t, gen, size, data, warnings, msg, io, outfile,
                   wsize, plays, loaded, Xold>>

\* lines 136-140: one iteration of the inner copy loop
play_copy ==
    /\ pc = "copy"
    /\ table' = [table EXCEPT ![i * N + j] = new[i * N + j]]
    /\ acc' = {i * N + j}
    /\ IF j + 1 < N
       THEN i' = i /\ j' = j + 1 /\ pc' = "copy"
       ELSE IF i + 1 < N
            THEN i' = i + 1 /\ j' = 0 /\ pc' = "copy"
            ELSE i' = N /\ j' = N /\ pc' = "test"
    /\ UNCHANGED <<fp, filename, N, t, gen, new, births, deaths, ok, size, data,
                   warnings, msg, io, outfile, wsize, plays, loaded, Xold>>

\* lines 143-148
play_test ==
    /\ pc = "test"
    /\ warn(miscounted(births, deaths, ok, N), MsgTesting)
    /\ new' = <<>>
    /\ plays' = plays + 1
    /\ acc' = {}
    /\ pc' = "incr"
    /\ UNCHANGED <<fp, filename, N, t, gen, table, i, j, births, deaths, ok, size, data,
                   msg, io, outfile, wsize, loaded, Xold>>

NextPlay ==
    \/ play_alloc
    \/ play_cell
    \/ play_copy
    \/ play_test

SpecPlay == InitPlay /\ [][NextPlay]_vars

\* the two granularities of play agree
PlayAgrees ==
    pc = "incr" =>
        \A g \in {generation(Xold, N)} :
            table = g.X /\ births = g.births /\ deaths = g.deaths /\ ok = g.ok

\* ===================================================================
\* The claims
\* ===================================================================
DEAD == 0
ALIVE == 1

Binary(X) == \A k \in DOMAIN X : X[k] \in {DEAD, ALIVE}

\* the rule table of the specification
RuleTable(state, s) ==
    IF state = DEAD THEN (IF s = 3 THEN ALIVE ELSE DEAD)
    ELSE (IF s < 2 \/ s > 3 THEN DEAD ELSE ALIVE)

\* the eight offsets of a neighbourhood
Offsets == <<<<-1, -1>>, <<-1, 0>>, <<-1, 1>>, <<0, -1>>, <<0, 1>>, <<1, -1>>, <<1, 0>>, <<1, 1>>>>

Wrap(x, n) == (x + n) % n

RECURSIVE SumFrom(_, _, _, _, _)
SumFrom(X, n, r, c, m) ==
    IF m > Len(Offsets) THEN 0
    ELSE X[Wrap(r + Offsets[m][1], n) * n + Wrap(c + Offsets[m][2], n)]
         + SumFrom(X, n, r, c, m + 1)

\* the sum of the values at the eight wrapped neighbour positions of (r, c)
NeighbourSum(X, n, r, c) == SumFrom(X, n, r, c, 1)

RECURSIVE Generations(_, _, _)
\* the grid after k generations from X
Generations(X, n, k) == IF k = 0 THEN X ELSE Generations(generation(X, n).X, n, k - 1)

\* C1: one call of play on a grid of 0s and 1s leaves in every cell the state
\* the rule table gives for the cell's old state and the sum of the old values
\* at its eight wrapped neighbour positions, for every N >= 1.
C1_RuleTable ==
    (pc = "incr" /\ Binary(Xold)) =>
        \A r \in 0 .. (N - 1) : \A c \in 0 .. (N - 1) :
            table[r * N + c] = RuleTable(Xold[r * N + c], NeighbourSum(Xold, N, r, c))

\* a 3 x 3 generation in which cell (0,0) is born from wrapped neighbours
\* only, (2,2) among them
C1_Witness ==
    /\ pc = "incr" /\ N = 3 /\ Binary(Xold)
    /\ Xold[0] = DEAD /\ table[0] = ALIVE
    /\ Xold[1] = DEAD /\ Xold[3] = DEAD /\ Xold[4] = DEAD
    /\ Xold[8] = ALIVE

\* C2: a run that reaches write_to_file has called play exactly t times, each
\* call starting from the grid the previous one left, so the grid written is
\* the loaded grid after t generations; with t = 0 it is the loaded grid.
C2_Generations ==
    /\ pc \in {"for", "play", "incr"} => plays <= t
    /\ pc = "play" => (plays = gen /\ plays < t)
    /\ (pc = "play" /\ plays = 0) => table = loaded
    /\ (pc = "play" /\ plays > 0) => table = generation(Xold, N).X
    /\ pc = "incr" => (table = generation(Xold, N).X /\ plays = gen + 1)
    /\ pc \in {"print2", "write", "done"} => plays = t
    /\ pc = "write" => table = Generations(loaded, N, t)
    /\ (pc = "write" /\ t = 0) => table = loaded

C2_Witness ==
    /\ pc = "done" /\ t = 2 /\ plays = 2
    /\ table # loaded
    /\ table # generation(loaded, N).X
    /\ generation(loaded, N).X # loaded

\* C3: while play computes the next states no cell of X is written: X keeps the
\* value it had at the call until all N*N next states are in the separate
\* buffer, so every next state is computed from the old generation; and when
\* the allocation fails the run ends fatally with X as it was.
C3_Atomic ==
    /\ pc = "cell" => table = Xold
    /\ pc = "cell" => DOMAIN new = 0 .. (i * N + j - 1)
    /\ pc \in {"cell", "copy", "test"} =>
           \A k \in DOMAIN new : new[k] = cell(Xold, N, k \div N, k % N).new
    /\ pc \in {"copy", "test"} => DOMAIN new = Cells(N)
    /\ (pc = "dead" /\ msg = MsgAlloc) => table = Xold

\* in the middle of the cell loop a next state that differs from the old one,
\* and that a later cell reads, is in new while X still holds the old one
C3_Witness ==
    /\ pc = "cell" /\ N = 3 /\ i = 1 /\ j = 1
    /\ new[0] # table[0]
    /\ new[1] # table[1]

\* C4: for any grid contents, after the cell loop of a play call
\* births + deaths + ok = N*N, each cell having been counted exactly once, so
\* the testing warning is never emitted.
C4_Counted ==
    /\ pc = "cell" => births + deaths + ok = i * N + j
    /\ pc \in {"copy", "test", "incr"} => births + deaths + ok = N * N
    /\ MsgTesting \notin warnings
    /\ births >= 0 /\ deaths >= 0 /\ ok >= 0

\* a generation of a grid with a cell that is neither 0 nor 1, with births
C4_Witness ==
    /\ pc = "incr" /\ N = 3
    /\ ~Binary(Xold)
    /\ births > 0 /\ ok > 0 /\ deaths = 0

\* C5: the file write_to_file opens for writing is never the source file, for
\* every source path and every N (the original statement).
C5_Distinct == outfile # <<>> => outfile # filename

\* C6: if the source cannot be opened the run ends at once in
\* die("Couldn't open file to read"): no read from the source, no step, no
\* write (the original statement).
C6_NoRead ==
    fp = "null" =>
        /\ pc = "dead" /\ msg = MsgOpenRead
        /\ \A k \in 1 .. Len(io) : io[k] # "fread source"
        /\ plays = 0 /\ outfile = <<>>

\* C7: with c elements read from an opened source: c = 0 ends the run fatally
\* before any step; 0 < c < N*N emits the warning and does not end the run,
\* which goes on with the buffer whose first c cells are the values read and,
\* when it completes, has performed t steps and the write; c = N*N emits no
\* warning.
C7_ReadCount ==
    fp \in {"open", "closed"} =>
        /\ size = 0 => (pc = "dead" /\ msg = MsgRead /\ plays = 0 /\ warnings = {})
        /\ size > 0 => (fp = "closed" /\ msg \notin {MsgRead, MsgOpenRead})
        /\ (0 < size /\ size < N * N) =>
              /\ MsgShortRead \in warnings
              /\ \A k \in 0 .. (size - 1) : loaded[k] = data[k]
              /\ pc = "done" =>
                    (plays = t /\ outfile # <<>> /\ table = Generations(loaded, N, t))
        /\ size = N * N => MsgShortRead \notin warnings

C7_Witness ==
    /\ pc = "done" /\ t = 2 /\ plays = 2
    /\ 0 < size /\ size < N * N
    /\ MsgShortRead \in warnings
    /\ table # loaded

\* C8: from the moment the grid is loaded every element of it is 0 or 1,
\* whatever the read delivered (the original statement).
C8_Binary == loaded # <<>> => Binary(table)

\* C9 as stated: 0 <= gen < t in every reachable state.
C9_Original == 0 <= gen /\ gen < t

\* C9 amended: 0 <= gen <= t in every reachable state, gen < t whenever the
\* loop body runs, gen = t once the loop is left; gen is changed only by the
\* increment of the driver loop, and only by exactly 1.
C9_Counter ==
    /\ [](/\ 0 <= gen /\ gen <= t
          /\ pc \in {"play", "incr"} => gen < t
          /\ pc \in {"print2", "write", "done"} => gen = t)
    /\ [][gen' # gen => (pc = "incr" /\ gen' = gen + 1)]_vars

C9_Witness == pc = "done" /\ t = 2 /\ gen = 2 /\ plays = 2

\* C10: every index at which the grid buffer is accessed lies in 0 .. N*N-1
\* (the original statement).
C10_InRange == acc \subseteq Cells(N)

====
